---- MODULE Spec2Model ----
(***************************************************************************)
(* Field-data processing of the winter-SAR surface displacement study:     *)
(*   process_snow.py   correct_for_heave (snow depth minus frost heave)    *)
(*   process_tilt.py   processData / convertAngles (inclinometer)          *)
(*   merge_datasets.py concat_sonar / concat_tilt (raw file merge)         *)
(*   the three __main__ driver loops                                       *)
(*   getMetData / combine_snow_with_EC (merge with the station records)    *)
(*                                                                         *)
(* Conventions.  A float is either NaN (the empty tuple) or Num(v) with v  *)
(* an integer.  Dates are integers YYYYMMDD, so that the order of the      *)
(* integers is the order of the dates.  Fields in cm are counted in        *)
(* hundredths of a cm, fields in mm in mm: 1 mm = 0.1 cm = 10 hundredths.  *)
(***************************************************************************)
EXTENDS Integers, Sequences, FiniteSets, TLC

VARIABLES
    \* process_snow.correct_for_heave
    site,           \* the site argument
    sdf,            \* the snow dataframe, written in place: date -> row
    cols,           \* the columns sdf has
    tdf,            \* dh1_mm column of <site>_inclinometer_processed.csv
    sdf_copy,       \* the copy holding the input snow depth and dh1_mm
    year,           \* number of snow_on_ground entries the loop has done
    corrected_sd,   \* the loop's locals after the last iteration
    corrected_dh,
    snow_pc,        \* "idle" | "loop" | "done" | "failed"
    returned,       \* the dataframes returned so far, one per call
    \* process_tilt.processData
    tilt_site,      \* the site named by the file's directory
    data,           \* importData(file): timestamp -> angle_1, logger_temp_c
    out,            \* the output dataframe: timestamp -> row
    tilt_pc,        \* "idle" | "converted" | "truncated" | "filtered" |
                    \* "done" | "failed"
    tilt_error,     \* the exception processData ended with, "" if none
    \* merge_datasets.concat_sonar / concat_tilt
    fn,             \* the function called: "concat_sonar" | "concat_tilt"
    out_dir,        \* its out_dir argument, the site directory
    df,             \* the dataframe built so far: a sequence of rows
    nfiles,         \* the files of the list read so far
    bound_cols,     \* whether the locals tilt_col1, tilt_col2 are bound
    seen,           \* timestamp -> the first row the files read so far
                    \* gave for it, in the order of the list
    merge_pc,       \* "loop" | "done" | "failed"
    merge_error,    \* the exception the call ended with, "" if none
    saved,          \* the rows written by to_csv, <<>> before
    \* the __main__ loops
    driver,         \* the script run
    raising,        \* the sites whose data make their processing raise
    todo,           \* the sites (files) the loop has not come to
    processed,      \* the sites processed without an error
    written,        \* the sites whose output file is written
    main_pc,        \* "loop" | "save" | "end" | "crashed"
    \* process_tilt.getMetData and process_snow.combine_snow_with_EC
    caller,         \* the script merging: "process_tilt" | "process_snow"
    series,         \* the dataframe handed in: a sequence of rows
    inuvik,         \* the daily records of the Inuvik station
    trailvalley,    \* the daily records of the Trail Valley station
    out_df,         \* the dataframe returned, <<>> before
    met_pc,         \* "start" | "done"
    \* process_tilt.convertAngles
    conv_site,      \* the site argument
    conv_angle,     \* the angle_rads argument
    conv_flip,      \* the flip argument
    dY,             \* the value returned, NaN before
    conv_pc,        \* "call" | "returned"
    \* merge_datasets.concat_tilt, the frame of one GeoPrecision file
    geo_file,       \* the rows pd.read_csv gives
    geo_concat,     \* the frame concat, <<>> before
    geo_error,      \* the exception raised, "" if none
    geo_pc,         \* "read" | "framed" | "failed"
    \* merge_datasets.concat_sonar, the frame of one file
    sonar_file,     \* the rows pd.read_csv gives
    sonar_zone,     \* the GMT offset in the date column's name
    sonar_dir,      \* the site directory the file is in
    sonar_concat,   \* the frame concat, <<>> before
    sonar_pc        \* "read" | "framed"

snowVars == <<site, sdf, cols, tdf, sdf_copy, year, corrected_sd,
              corrected_dh, snow_pc, returned>>

tiltVars == <<tilt_site, data, out, tilt_pc, tilt_error>>

mergeVars == <<fn, out_dir, df, nfiles, bound_cols, seen, merge_pc,
               merge_error, saved>>

mainVars == <<driver, raising, todo, processed, written, main_pc>>

metVars == <<caller, series, inuvik, trailvalley, out_df, met_pc>>

convVars == <<conv_site, conv_angle, conv_flip, dY, conv_pc>>

geoVars == <<geo_file, geo_concat, geo_error, geo_pc>>

sonarVars == <<sonar_file, sonar_zone, sonar_dir, sonar_concat, sonar_pc>>

vars == <<snowVars, tiltVars, mergeVars, mainVars, metVars, convVars,
          geoVars, sonarVars>>

----------------------------------------------------------------------------
(* numpy floats                                                            *)

NaN == <<>>
Num(v) == <<v>>
IsNa(x) == x = NaN
Val(x) == x[1]

\* a - b; NaN if either is NaN
Sub(a, b) == IF IsNa(a) \/ IsNa(b) THEN NaN ELSE Num(Val(a) - Val(b))

\* a + b; NaN if either is NaN
Add(a, b) == IF IsNa(a) \/ IsNa(b) THEN NaN ELSE Num(Val(a) + Val(b))

\* a < c for a number c: every comparison with NaN is False
Lt(a, c) == ~IsNa(a) /\ Val(a) < c

----------------------------------------------------------------------------
(* process_tilt.py                                                         *)
(* Angles are in milliradians, h1_mm and dh1_mm in tenths of a mm,         *)
(* temperatures in degrees Celsius.                                        *)

MaxTiltRows == 3

\* the timestamps the explored files may hold: the day before start_date,
\* start_date, a day inside, end_date
TiltDays == {20180826, 20180827, 20210115, 20230801}

start_date == 20180827
end_date == 20230801

\* input angles: none, level, 0.1 rad, and 0.5 rad, which moves the arm end
\* of sites 1 to 3 further than the pivot is high
Angles == {NaN, Num(0), Num(100), Num(500)}

\* input logger temperatures
Temps == {NaN, Num(-40), Num(-35), Num(-34)}

Sites == {"site_1", "site_2", "site_3", "site_4", "site_5", "site_6"}

arm_length ==
    [s \in Sites |->
        CASE s = "site_1" -> 1470 [] s = "site_2" -> 1490
          [] s = "site_3" -> 1520 [] s = "site_4" -> 1575
          [] s = "site_5" -> 1590 [] s = "site_6" -> 1750]

pivot_height ==
    [s \in Sites |->
        CASE s = "site_1" -> 120 [] s = "site_2" -> 140
          [] s = "site_3" -> 140 [] s = "site_4" -> 385
          [] s = "site_5" -> 495 [] s = "site_6" -> 360]

\* np.sin and np.cos of the explored angles, in 1/10000
Sin(a) ==
    CASE a = 0 -> 0 [] a = 100 -> 998 [] a = 500 -> 4794
      [] a = -100 -> -998 [] a = -500 -> -4794

Cos(a) ==
    CASE a = 0 -> 10000 [] a = 100 -> 9950 [] a = 500 -> 8776
      [] a = -100 -> 9950 [] a = -500 -> 8776

RECURSIVE SqrtBetween(_, _, _)
SqrtBetween(n, lo, hi) ==
    IF lo = hi THEN lo
    ELSE LET mid == (lo + hi + 1) \div 2
         IN  IF mid * mid <= n THEN SqrtBetween(n, mid, hi)
             ELSE SqrtBetween(n, lo, mid - 1)

\* np.sqrt: NaN below zero, else the root (rounded down to the unit; the
\* search starts below 46341, whose square no longer fits 32 bits)
Sqrt(n) ==
    IF n < 0 THEN NaN
    ELSE Num(SqrtBetween(n, 0, IF n < 46340 THEN n ELSE 46340))

\* convertAngles with dX = cos(angle) * arm_length, the 1 - left out
convertAnglesCosOnly(angle_rads, s, flip) ==
    IF IsNa(angle_rads) THEN NaN
    ELSE LET a   == Val(angle_rads)
             dYL == (Sin(a) * arm_length[s]) \div 1000
             dX  == (Cos(a) * arm_length[s]) \div 1000
             dYP == Sqrt((pivot_height[s] * 10) * (pivot_height[s] * 10)
                         - dX * dX)
         IN  Add(Num(IF flip THEN -1 * dYL ELSE dYL), dYP)

\* convertAngles, in tenths of a mm
convertAngles(angle_rads, s, flip) ==
    IF IsNa(angle_rads) THEN NaN
    ELSE LET a   == Val(angle_rads)
             dYL == (Sin(a) * arm_length[s]) \div 1000
             dX  == ((10000 - Cos(a)) * arm_length[s]) \div 1000
             dYP == Sqrt((pivot_height[s] * 10) * (pivot_height[s] * 10)
                         - dX * dX)
         IN  Add(Num(IF flip THEN -1 * dYL ELSE dYL), dYP)

\* the angles convertAngles is called with: those of the files and the
\* same tilts the other way
CallAngles == Angles \cup {Num(-100), Num(-500)}

\* one call of convertAngles
CallConvertAngles ==
    /\ conv_pc = "call"
    /\ dY' = convertAngles(conv_angle, conv_site, conv_flip)
    /\ conv_pc' = "returned"
    /\ UNCHANGED <<conv_site, conv_angle, conv_flip>>
    /\ UNCHANGED <<snowVars, tiltVars, mergeVars, mainVars, metVars, geoVars,
                   sonarVars>>

\* out[out.isna()] = 0
FillNa(x) == IF IsNa(x) THEN Num(0) ELSE x

LowTemp == -35

\* out.logger_temp_c < -35, the mask of line 153, with <= for <
TooColdOrEqual(row) == Lt(row.logger_temp_c, LowTemp + 1)

\* out.logger_temp_c < -35, the mask of line 153
TooCold(row) == Lt(row.logger_temp_c, LowTemp)

Min(S) == CHOOSE t \in S : \A u \in S : t <= u

\* FirstValid with .iloc[0] taken of the whole column
FirstRow(frame) ==
    IF DOMAIN frame = {} THEN [raised |-> "IndexError", value |-> NaN]
    ELSE [raised |-> "", value |-> frame[Min(DOMAIN frame)].h1_mm]

\* FirstValid with a NaN baseline for a selection that is empty
FirstValidOrNaN(frame) ==
    LET valid == { t \in DOMAIN frame : ~IsNa(frame[t].h1_mm) }
    IN  IF valid = {} THEN [raised |-> "", value |-> NaN]
        ELSE [raised |-> "", value |-> frame[Min(valid)].h1_mm]

\* out['h1_mm'].loc[~out['h1_mm'].isnull()].iloc[0]: the first value that
\* is not missing, in the order of the sorted index; IndexError if none is
FirstValid(frame) ==
    LET valid == { t \in DOMAIN frame : ~IsNa(frame[t].h1_mm) }
    IN  IF valid = {} THEN [raised |-> "IndexError", value |-> NaN]
        ELSE [raised |-> "", value |-> frame[Min(valid)].h1_mm]

\* lines 133-146: import, the output frame, the conversion, the zero fill,
\* the sort (the frame is kept as a map from its index, read in index order)
Convert ==
    /\ tilt_pc = "idle"
    /\ out' = [t \in DOMAIN data |->
                 [logger_temp_c |-> FillNa(data[t].logger_temp_c),
                  h1_mm |-> FillNa(convertAngles(data[t].angle_1, tilt_site,
                                                 FALSE)),
                  dh1_mm |-> NaN]]
    /\ tilt_pc' = "converted"
    /\ UNCHANGED <<tilt_site, data, tilt_error>>
    /\ UNCHANGED <<snowVars, mergeVars, mainVars, metVars, convVars, geoVars,
                   sonarVars>>

\* lines 149-150
Truncate ==
    /\ tilt_pc = "converted"
    /\ out' = [t \in { u \in DOMAIN out : u >= start_date /\ u <= end_date }
                 |-> out[t]]
    /\ tilt_pc' = "truncated"
    /\ UNCHANGED <<tilt_site, data, tilt_error>>
    /\ UNCHANGED <<snowVars, mergeVars, mainVars, metVars, convVars, geoVars,
                   sonarVars>>

\* line 153
TempFilter ==
    /\ tilt_pc = "truncated"
    /\ out' = [t \in DOMAIN out |->
                 IF TooCold(out[t]) THEN [out[t] EXCEPT !.h1_mm = NaN]
                 ELSE out[t]]
    /\ tilt_pc' = "filtered"
    /\ UNCHANGED <<tilt_site, data, tilt_error>>
    /\ UNCHANGED <<snowVars, mergeVars, mainVars, metVars, convVars, geoVars,
                   sonarVars>>

\* lines 156-159
Baseline ==
    /\ tilt_pc = "filtered"
    /\ LET b == FirstValid(out)
       IN  IF b.raised # ""
           THEN /\ tilt_pc' = "failed"
                /\ tilt_error' = b.raised
                /\ UNCHANGED out
           ELSE /\ out' = [t \in DOMAIN out |->
                             [out[t] EXCEPT !.dh1_mm = Sub(out[t].h1_mm,
                                                           b.value)]]
                /\ tilt_pc' = "done"
                /\ UNCHANGED tilt_error
    /\ UNCHANGED <<tilt_site, data>>
    /\ UNCHANGED <<snowVars, mergeVars, mainVars, metVars, convVars, geoVars,
                   sonarVars>>

----------------------------------------------------------------------------
(* merge_datasets.py                                                       *)
(* A raw cell is [tok, num]: a number (tok = "") or a logger token.  Sonar *)
(* times are hours; the file header's GMT offset is added to every time    *)
(* string, so a row's timestamp is the instant local - offset.  Tilt dates *)
(* are read day-first (GeoPrecision) or year-first (RST) into YYYYMMDD.    *)
(* Angles are degrees in a GeoPrecision file and milliradians in df.       *)

MaxFiles == 2
MaxFileRows == 2

MAX_SNOW_VAL == 100

\* raw sonar files: local hours, GMT offsets, snow depths in inches
SonarHours == {10, 11}
SonarZones == {-7, -6}
SonarVals == {NaN, Num(-150), Num(-100), Num(20), Num(50), Num(100),
              Num(150)}

SonarFiles ==
    UNION { [1..n -> [time : SonarHours, snow : SonarVals]] :
            n \in 0..MaxFileRows }

\* df_new[snow_col] < MAX_SNOW_VAL and df_new[snow_col] > -MAX_SNOW_VAL
BelowMax(r) == ~IsNa(r.snow) /\ Val(r.snow) < MAX_SNOW_VAL
AboveMin(r) == ~IsNa(r.snow) /\ Val(r.snow) > -MAX_SNOW_VAL

\* df_new.where(cond): a row failing the condition is NaN in every column,
\* its date too
WhereBelowMax(rows) ==
    [i \in DOMAIN rows |->
        IF BelowMax(rows[i]) THEN rows[i] ELSE [time |-> NaN, snow |-> NaN]]

WhereAboveMin(rows) ==
    [i \in DOMAIN rows |->
        IF AboveMin(rows[i]) THEN rows[i] ELSE [time |-> NaN, snow |-> NaN]]

\* pd.to_datetime(date + timezone): the instant of a local time with a GMT
\* offset; NaT for a masked date
ToDatetimeTz(time, zone) == IF IsNa(time) THEN NaN ELSE Num(Val(time) - zone)

\* lines 73-100: the frame one sonar file gives
SonarFrame(file, zone, dir) ==
    LET raw == [i \in DOMAIN file |->
                  [time |-> Num(file[i].time),
                   snow |-> IF dir = "site_4/" THEN Num(0) ELSE file[i].snow]]
        kept == WhereAboveMin(WhereBelowMax(raw))
    IN  [i \in DOMAIN kept |->
           [t |-> ToDatetimeTz(kept[i].time, zone),
            snow_depth_in |-> kept[i].snow]]

\* lines 73-100 for one file
FrameSonarFile ==
    /\ sonar_pc = "read"
    /\ sonar_concat' = SonarFrame(sonar_file, sonar_zone, sonar_dir)
    /\ sonar_pc' = "framed"
    /\ UNCHANGED <<sonar_file, sonar_zone, sonar_dir>>
    /\ UNCHANGED <<snowVars, tiltVars, mergeVars, mainVars, metVars,
                   convVars, geoVars>>

\* df[~df.index.duplicated(keep='first')]: a row is dropped if an earlier
\* row has its index value (NaT equal to NaT)
DropDuplicates(rows) ==
    LET keep == { i \in DOMAIN rows :
                    \A j \in DOMAIN rows : j < i => rows[j].t # rows[i].t }
        F[i \in 0..Len(rows)] ==
            IF i = 0 THEN <<>>
            ELSE IF i \in keep THEN Append(F[i - 1], rows[i]) ELSE F[i - 1]
    IN  F[Len(rows)]

\* the first row a frame holds for each timestamp not seen before
FirstSeen(old, frame) ==
    LET new == { frame[i].t : i \in DOMAIN frame } \ ({NaN} \cup DOMAIN old)
    IN  [t \in DOMAIN old \cup new |->
           IF t \in DOMAIN old THEN old[t]
           ELSE frame[Min({ i \in DOMAIN frame : frame[i].t = t })]]

\* lines 72-107: one file of concat_sonar's loop
ConcatSonarFile ==
    /\ fn = "concat_sonar"
    /\ merge_pc = "loop"
    /\ nfiles < MaxFiles
    /\ \E file \in SonarFiles, zone \in SonarZones :
         LET concat == SonarFrame(file, zone, out_dir)
         IN  /\ df' = DropDuplicates(df \o concat)
             /\ seen' = FirstSeen(seen, concat)
    /\ nfiles' = nfiles + 1
    /\ UNCHANGED <<fn, out_dir, bound_cols, merge_pc, merge_error, saved>>
    /\ UNCHANGED <<snowVars, tiltVars, mainVars, metVars, convVars, geoVars,
                   sonarVars>>

\* raw tilt files: the date fields in the order the file writes them,
\* day.month.year in a GeoPrecision file, year-month-day in an RST file
GeoDates == { <<1, 2, 2021>>, <<2, 1, 2021>> }
RstDates == { <<2021, 1, 2>>, <<2021, 2, 1>> }
Err_64 == [tok |-> "(Err_64)", num |-> 0]
NoValue == [tok |-> "(NoValue)", num |-> 0]
Cell(v) == [tok |-> "", num |-> v]
TiltCells == {Cell(2), Cell(5), Err_64, NoValue}
TiltTemps == {Num(-10)}

TiltFiles(a54) ==
    UNION { [1..n -> [date : IF a54 THEN GeoDates ELSE RstDates,
                      temp : TiltTemps, c3 : TiltCells, c4 : TiltCells]] :
            n \in 0..MaxFileRows }

\* the GeoPrecision files of the frame-building step alone
MaxGeoRows == 3

GeoFiles ==
    UNION { [1..n -> [date : GeoDates, temp : TiltTemps,
                      c3 : TiltCells, c4 : TiltCells]] :
            n \in 0..MaxGeoRows }

\* pd.to_datetime(.., format='%d.%m.%Y %H:%M:%S')
ToDatetimeDayFirst(d) == Num(d[3] * 10000 + d[2] * 100 + d[1])

\* pd.to_datetime of the RST logger's year-first dates
ToDatetime(d) == Num(d[1] * 10000 + d[2] * 100 + d[3])

\* np.float32 of a column: ValueError if a cell is no number
Float32Raises(cells) == \E i \in DOMAIN cells : cells[i].tok # ""

\* np.deg2rad, degrees to milliradians
Deg2Rad(v) == (v * 17453) \div 1000

\* the value a cell has in a dataframe column taken over as it is: the
\* number, or the token as a string (NaN stands for it)
AsIs(c) == IF c.tok = "" THEN Num(c.num) ELSE NaN

\* lines 136-157: the frame a GeoPrecision file gives
GeoFrame(file) ==
    LET cut == SubSeq(file, 1, Len(file) - 1)
        ok  == SelectSeq(cut, LAMBDA r : r.c4 # Err_64 /\ r.c4 # NoValue)
    IN  IF Float32Raises([i \in DOMAIN ok |-> ok[i].c4])
           \/ Float32Raises([i \in DOMAIN ok |-> ok[i].c3])
        THEN [raised |-> "ValueError", rows |-> <<>>]
        ELSE [raised |-> "",
              rows |-> [i \in DOMAIN ok |->
                          [t |-> ToDatetimeDayFirst(ok[i].date),
                           angle_1 |-> Num(Deg2Rad(ok[i].c4.num)),
                           angle_2 |-> Num(Deg2Rad(ok[i].c3.num)),
                           logger_temp_c |-> ok[i].temp]]]

\* lines 136-157 for one file
FrameGeoFile ==
    /\ geo_pc = "read"
    /\ LET concat == GeoFrame(geo_file)
       IN  /\ geo_concat' = concat.rows
           /\ geo_error' = concat.raised
           /\ geo_pc' = IF concat.raised = "" THEN "framed" ELSE "failed"
    /\ UNCHANGED geo_file
    /\ UNCHANGED <<snowVars, tiltVars, mergeVars, mainVars, metVars, convVars,
                   sonarVars>>

\* lines 159-187: the frame an RST file gives; a directory that is neither
\* site 1 nor site 2 leaves tilt_col1 unbound (or bound to the column names
\* of an earlier GeoPrecision file, which this file does not have)
RstFrame(file, dir, bound) ==
    IF dir \notin {"site_1/", "site_2/"}
    THEN [raised |-> IF bound THEN "KeyError" ELSE "UnboundLocalError",
          rows |-> <<>>]
    ELSE [raised |-> "",
          rows |-> [i \in DOMAIN file |->
                      [t |-> ToDatetime(file[i].date),
                       angle_1 |-> AsIs(IF dir = "site_1/" THEN file[i].c3
                                        ELSE file[i].c4),
                       angle_2 |-> AsIs(IF dir = "site_1/" THEN file[i].c4
                                        ELSE file[i].c3),
                       logger_temp_c |-> file[i].temp]]]

RECURSIVE Perms(_)
Perms(S) ==
    IF S = {} THEN {<<>>}
    ELSE UNION { { <<x>> \o q : q \in Perms(S \ {x}) } : x \in S }

IsMonotonic(rows) ==
    \A i \in 1..(Len(rows) - 1) : Val(rows[i].t) <= Val(rows[i + 1].t)

\* the orders of the positions I of rows in which the index ascends
RECURSIVE Ascending(_, _)
Ascending(rows, I) ==
    IF I = {} THEN {<<>>}
    ELSE LET k == CHOOSE i \in I : \A j \in I : Val(rows[i].t) <= Val(rows[j].t)
             G == { i \in I : rows[i].t = rows[k].t }
         IN  { g \o rest : g \in Perms(G), rest \in Ascending(rows, I \ G) }

\* df.sort_index(): the frames it may give.  A monotonic index is left as
\* it is; any other is sorted with the default kind, quicksort, which is
\* not stable: rows of equal index come out in any order
SortIndex(rows) ==
    IF IsMonotonic(rows) THEN {rows}
    ELSE { [k \in DOMAIN p |-> rows[p[k]]] : p \in Ascending(rows, DOMAIN rows) }

\* lines 127-195: one file of concat_tilt's loop
ConcatTiltFile ==
    /\ fn = "concat_tilt"
    /\ merge_pc = "loop"
    /\ nfiles < MaxFiles
    /\ \E a54 \in BOOLEAN : \E file \in TiltFiles(a54) :
         LET concat == IF a54 THEN GeoFrame(file)
                       ELSE RstFrame(file, out_dir, bound_cols)
         IN  IF concat.raised # ""
             THEN /\ merge_pc' = "failed"
                  /\ merge_error' = concat.raised
                  /\ UNCHANGED <<df, seen, nfiles, bound_cols>>
             ELSE /\ \E sorted \in SortIndex(df \o concat.rows) :
                        df' = DropDuplicates(sorted)
                  /\ seen' = FirstSeen(seen, concat.rows)
                  /\ nfiles' = nfiles + 1
                  /\ bound_cols' = TRUE
                  /\ UNCHANGED <<merge_pc, merge_error>>
    /\ UNCHANGED <<fn, out_dir, saved>>
    /\ UNCHANGED <<snowVars, tiltVars, mainVars, metVars, convVars, geoVars,
                   sonarVars>>

\* lines 109-113 and 197-201: the end of the list, df.to_csv
Save ==
    /\ merge_pc = "loop"
    /\ nfiles >= 1
    /\ saved' = df
    /\ merge_pc' = "done"
    /\ UNCHANGED <<fn, out_dir, df, nfiles, bound_cols, seen, merge_error>>
    /\ UNCHANGED <<snowVars, tiltVars, mainVars, metVars, convVars, geoVars,
                   sonarVars>>

----------------------------------------------------------------------------
(* process_snow.py                                                         *)

\* bounds of the explored inputs
MaxRows == 2
MaxRuns == 2

\* the dates the explored dataframes may hold: the start, an inner day and
\* the end of the first window, the day site_2 is cut at, an inner day of
\* the second window, the start and an inner day of the last window
SnowDays == {20191005, 20200301, 20200412, 20200523, 20210101, 20220927,
             20230115}

\* input snow depths, in hundredths of a cm
SnowVals == {NaN, Num(-200), Num(100), Num(300)}

\* input relative deflections dh1_mm, in mm
TiltVals == {NaN, Num(5), Num(20)}

\* site_2 has the 2019 exception; site_1 stands for every other site
SnowSites == {"site_1", "site_2"}

snow_on_ground ==
    << [year |-> "2019", start |-> 20191005, end |-> 20200523],
       [year |-> "2020", start |-> 20201009, end |-> 20210514],
       [year |-> "2021", start |-> 20210927, end |-> 20220510],
       [year |-> "2022", start |-> 20220927, end |-> 20230601] >>

Site2Failed == 20200412

\* Season with the window's end date taken in: <= for < in line 161
SeasonClosed(y) ==
    { t \in DOMAIN sdf_copy :
        /\ t >= snow_on_ground[y].start
        /\ t <= snow_on_ground[y].end
        /\ (site = "site_2" /\ snow_on_ground[y].year = "2019"
               => t < Site2Failed) }

\* season = sdf_copy truncated to the window (and to site_2's failure)
Season(y) ==
    { t \in DOMAIN sdf_copy :
        /\ t >= snow_on_ground[y].start
        /\ t < snow_on_ground[y].end
        /\ (site = "site_2" /\ snow_on_ground[y].year = "2019"
               => t < Site2Failed) }

\* season.<col>.loc[snow_on_ground[year][0]] raises KeyError
KeyError(y) == snow_on_ground[y].start \notin Season(y)

\* the try block
ZeroedSd(y) ==
    [t \in Season(y) |->
        Sub(sdf_copy[t].snow_depth_cm,
            sdf_copy[snow_on_ground[y].start].snow_depth_cm)]

ZeroedDh(y) ==
    [t \in Season(y) |->
        Sub(sdf_copy[t].dh1_mm, sdf_copy[snow_on_ground[y].start].dh1_mm)]

\* the except block
RawSd(y) == [t \in Season(y) |-> sdf_copy[t].snow_depth_cm]

RawDh(y) == [t \in Season(y) |-> sdf_copy[t].dh1_mm]

\* x*0.1 takes mm to cm: ten hundredths of a cm per mm
MmToCm(x) == IF IsNa(x) THEN NaN ELSE Num(Val(x) * 10)

\* DhCopy without line 175: the NaN are left in
DhCopyNoFill(dh) == [t \in DOMAIN dh |-> MmToCm(dh[t])]

\* dh_copy = corrected_dh*0.1 with its NaN set to zero
DhCopy(dh) ==
    [t \in DOMAIN dh |-> IF IsNa(MmToCm(dh[t])) THEN Num(0) ELSE MmToCm(dh[t])]

\* sdf['heave_cm'] = corrected_dh*0.1: the whole column is assigned, aligned
\* on the index, so a date the series does not hold gets NaN
HeaveColumn(dh, t) == IF t \in DOMAIN dh THEN MmToCm(dh[t]) ELSE NaN

NaNRow == [snow_depth_cm |-> NaN, snow_sub_heave |-> NaN, heave_cm |-> NaN]

\* Invalidate as a floor of the one column: negative depths are set to NaN
\* and the row's other fields are kept
InvalidateDepthOnly(frame) ==
    [t \in DOMAIN frame |->
        IF Lt(frame[t].snow_depth_cm, 0)
        THEN [frame[t] EXCEPT !.snow_depth_cm = NaN] ELSE frame[t]]

\* sdf.loc[sdf.snow_depth_cm < 0] = np.nan
Invalidate(frame) ==
    [t \in DOMAIN frame |->
        IF Lt(frame[t].snow_depth_cm, 0) THEN NaNRow ELSE frame[t]]

\* the three stores of one iteration
Store(frame, sd, dh) ==
    [t \in DOMAIN frame |->
        [snow_depth_cm  |-> IF t \in DOMAIN sd THEN sd[t]
                            ELSE frame[t].snow_depth_cm,
         snow_sub_heave |-> IF t \in DOMAIN sd THEN Sub(sd[t], DhCopy(dh)[t])
                            ELSE frame[t].snow_sub_heave,
         heave_cm       |-> HeaveColumn(dh, t)]]

\* lines 142-156: the copy, the reset of snow_depth_cm, the heave lookup
Begin ==
    /\ snow_pc \in {"idle", "done"}
    /\ Len(returned) < MaxRuns
    /\ sdf_copy' = [t \in DOMAIN sdf |->
                      [snow_depth_cm  |-> sdf[t].snow_depth_cm,
                       snow_sub_heave |-> sdf[t].snow_sub_heave,
                       heave_cm       |-> sdf[t].heave_cm,
                       dh1_mm |-> IF t \in DOMAIN tdf THEN tdf[t] ELSE NaN]]
    /\ sdf' = [t \in DOMAIN sdf |->
                 [sdf[t] EXCEPT !.snow_depth_cm = NaN, !.snow_sub_heave = NaN]]
    /\ cols' = cols \cup {"snow_sub_heave"}
    /\ year' = 0
    /\ snow_pc' = "loop"
    /\ UNCHANGED <<site, tdf, corrected_sd, corrected_dh, returned>>
    /\ UNCHANGED <<tiltVars, mergeVars, mainVars, metVars, convVars, geoVars,
                   sonarVars>>

\* the try block: the two subtractions, or the KeyError of the lookup, which
\* leaves the locals as they were
Try(y) ==
    IF KeyError(y)
    THEN [raised |-> TRUE, sd |-> corrected_sd, dh |-> corrected_dh]
    ELSE [raised |-> FALSE, sd |-> ZeroedSd(y), dh |-> ZeroedDh(y)]

\* Except without the handler: what the try block raised goes on
ExceptNothing(r, y) == r

\* the bare except: whatever was raised is caught and the season is taken
\* as it is
Except(r, y) ==
    IF r.raised THEN [raised |-> FALSE, sd |-> RawSd(y), dh |-> RawDh(y)]
    ELSE r

\* lines 157-181: one iteration of the loop over snow_on_ground; the
\* function returns sdf after the last one
SeasonStep ==
    /\ snow_pc = "loop"
    /\ year < Len(snow_on_ground)
    /\ LET y == year + 1
           r == Except(Try(y), y)
       IN IF r.raised
          THEN /\ snow_pc' = "failed"
               /\ UNCHANGED <<site, sdf, cols, tdf, sdf_copy, year,
                              corrected_sd, corrected_dh, returned>>
          ELSE /\ corrected_sd' = r.sd
               /\ corrected_dh' = r.dh
               /\ sdf' = Invalidate(Store(sdf, r.sd, r.dh))
               /\ cols' = cols \cup {"heave_cm"}
               /\ year' = y
               /\ IF y = Len(snow_on_ground)
                  THEN /\ snow_pc' = "done"
                       /\ returned' = Append(returned, sdf')
                  ELSE UNCHANGED <<snow_pc, returned>>
               /\ UNCHANGED <<site, tdf, sdf_copy>>
    /\ UNCHANGED <<tiltVars, mergeVars, mainVars, metVars, convVars, geoVars,
                   sonarVars>>

----------------------------------------------------------------------------
(* The __main__ blocks of the three scripts.  No loop has a try: an error  *)
(* raised for one site ends the script.  What makes a site's processing    *)
(* raise (an empty series in processData, a token in concat_tilt, ...) is  *)
(* the input `raising`.                                                    *)

Drivers == {"merge_datasets", "process_tilt", "process_snow"}

\* process_snow.combine_snow_with_ERA5 reads inuvik_met_dir and
\* trailvalley_met_dir, which are locals of combine_snow_with_EC: NameError
Era5Raises == TRUE

\* whether processing site s raises in the script d
Raises(d, s) == s \in raising \/ (d = "process_snow" /\ Era5Raises)

\* merge_datasets.py lines 209-210: process_all(site) for the next site
MergeSite ==
    /\ driver = "merge_datasets"
    /\ main_pc = "loop"
    /\ \E s \in todo :
         IF Raises(driver, s)
         THEN /\ main_pc' = "crashed"
              /\ UNCHANGED <<todo, processed, written>>
         ELSE /\ todo' = todo \ {s}
              /\ processed' = processed \cup {s}
              /\ written' = written \cup {s}
              /\ UNCHANGED main_pc
    /\ UNCHANGED <<driver, raising>>
    /\ UNCHANGED <<snowVars, tiltVars, mergeVars, metVars, convVars, geoVars,
                   sonarVars>>

\* process_tilt.py lines 315-323: the next file is processed into the
\* dictionary; nothing is written yet
TiltFile ==
    /\ driver = "process_tilt"
    /\ main_pc = "loop"
    /\ \E s \in todo :
         IF Raises(driver, s)
         THEN /\ main_pc' = "crashed"
              /\ UNCHANGED <<todo, processed>>
         ELSE /\ todo' = todo \ {s}
              /\ processed' = processed \cup {s}
              /\ UNCHANGED main_pc
    /\ UNCHANGED <<driver, raising, written>>
    /\ UNCHANGED <<snowVars, tiltVars, mergeVars, metVars, convVars, geoVars,
                   sonarVars>>

\* process_tilt.py lines 326-329: after the loop, one csv per site
TiltSave ==
    /\ driver = "process_tilt"
    /\ main_pc \in {"loop", "save"}
    /\ todo = {}
    /\ IF processed \subseteq written
       THEN main_pc' = "end" /\ UNCHANGED written
       ELSE /\ \E s \in processed \ written : written' = written \cup {s}
            /\ main_pc' = "save"
    /\ UNCHANGED <<driver, raising, todo, processed>>
    /\ UNCHANGED <<snowVars, tiltVars, mergeVars, metVars, convVars, geoVars,
                   sonarVars>>

\* process_snow.py lines 250-270: the next file is processed and written
SnowFile ==
    /\ driver = "process_snow"
    /\ main_pc = "loop"
    /\ \E s \in todo :
         IF Raises(driver, s)
         THEN /\ main_pc' = "crashed"
              /\ UNCHANGED <<todo, processed, written>>
         ELSE /\ todo' = todo \ {s}
              /\ processed' = processed \cup {s}
              /\ written' = written \cup {s}
              /\ UNCHANGED main_pc
    /\ UNCHANGED <<driver, raising>>
    /\ UNCHANGED <<snowVars, tiltVars, mergeVars, metVars, convVars, geoVars,
                   sonarVars>>

\* the end of the loop of merge_datasets.py and process_snow.py
LoopEnd ==
    /\ driver \in {"merge_datasets", "process_snow"}
    /\ main_pc = "loop"
    /\ todo = {}
    /\ main_pc' = "end"
    /\ UNCHANGED <<driver, raising, todo, processed, written>>
    /\ UNCHANGED <<snowVars, tiltVars, mergeVars, metVars, convVars, geoVars,
                   sonarVars>>

----------------------------------------------------------------------------
(* process_tilt.getMetData and process_snow.combine_snow_with_EC           *)
(* A row is [t, own, sub, met]: the date, two columns of the series' own   *)
(* (snow_depth_cm and snow_sub_heave in hundredths of a cm, or dh1_mm and  *)
(* h1_mm) and the 'Snow on Grnd (cm)' columns the merges have added so     *)
(* far, in the order they were added (the _x and _y columns after two      *)
(* merges).  A station's daily records are a sequence of [t, snow_on_grnd] *)
(* with one record for a date.                                             *)

MaxSeriesRows == 2
MaxMetRows == 2

MetDays == {20200301, 20200302, 20200303}
OwnVals == {NaN, Num(0), Num(300)}
SubVals == {NaN, Num(250)}
GroundVals == {NaN, Num(12)}

RECURSIVE SortedSeq(_)
SortedSeq(S) ==
    IF S = {} THEN <<>> ELSE <<Min(S)>> \o SortedSeq(S \ {Min(S)})

\* data.resample('D'): one row for every day from the first to the last
SeriesFrames ==
    UNION { { [i \in 1..Cardinality(D) |->
                 [t |-> SortedSeq(D)[i], own |-> f[SortedSeq(D)[i]][1],
                  sub |-> f[SortedSeq(D)[i]][2], met |-> <<>>]] :
              f \in [D -> OwnVals \X SubVals] } :
            D \in { {d \in MetDays : a <= d /\ d <= b} :
                    a \in MetDays, b \in MetDays } \cup {{}} }

\* pd.DataFrame(data=met_dict) indexed by 'Date/Time'
MetFrames ==
    UNION { { [i \in 1..Cardinality(D) |->
                 [t |-> SortedSeq(D)[i],
                  snow_on_grnd |-> f[SortedSeq(D)[i]]]] :
              f \in [D -> GroundVals] } :
            D \in SUBSET MetDays }

\* df.merge(met_df, how='left', left_index=True, right_index=True): every
\* row of df in df's order, once for each record of met_df with its date,
\* once with the met columns missing if there is none
MergeRow(row, met_df) ==
    LET SameDate(r) == r.t = row.t
        m == SelectSeq(met_df, SameDate)
    IN  IF m = <<>>
        THEN <<[row EXCEPT !.met = Append(@, NaN)]>>
        ELSE [j \in DOMAIN m |->
                [row EXCEPT !.met = Append(@, m[j].snow_on_grnd)]]

\* an inner join: a row of df without a record in met_df is left out
getMetDataInner(frame, met_df) ==
    LET Matched(row) == \E j \in DOMAIN met_df : met_df[j].t = row.t
        F[i \in 0..Len(frame)] ==
            IF i = 0 THEN <<>>
            ELSE IF Matched(frame[i])
                 THEN F[i - 1] \o MergeRow(frame[i], met_df)
                 ELSE F[i - 1]
    IN  F[Len(frame)]

getMetData(frame, met_df) ==
    LET F[i \in 0..Len(frame)] ==
            IF i = 0 THEN <<>> ELSE F[i - 1] \o MergeRow(frame[i], met_df)
    IN  F[Len(frame)]

\* sdf.loc[sdf['Snow on Grnd (cm)_x'].isna(), 'snow_depth_cm'] = np.nan
NoSnowAtInuvik(frame) ==
    [i \in DOMAIN frame |->
        IF IsNa(frame[i].met[1]) THEN [frame[i] EXCEPT !.own = NaN]
        ELSE frame[i]]

combine_snow_with_EC(frame, inuvik_met, trailvalley_met) ==
    NoSnowAtInuvik(getMetData(getMetData(frame, inuvik_met),
                              trailvalley_met))

\* process_tilt.py line 323
TiltGetMetData ==
    /\ met_pc = "start"
    /\ caller = "process_tilt"
    /\ out_df' = getMetData(series, inuvik)
    /\ met_pc' = "done"
    /\ UNCHANGED <<caller, series, inuvik, trailvalley>>
    /\ UNCHANGED <<snowVars, tiltVars, mergeVars, mainVars, convVars, geoVars,
                   sonarVars>>

\* process_snow.py line 264
SnowCombineWithEC ==
    /\ met_pc = "start"
    /\ caller = "process_snow"
    /\ out_df' = combine_snow_with_EC(series, inuvik, trailvalley)
    /\ met_pc' = "done"
    /\ UNCHANGED <<caller, series, inuvik, trailvalley>>
    /\ UNCHANGED <<snowVars, tiltVars, mergeVars, mainVars, convVars, geoVars,
                   sonarVars>>

----------------------------------------------------------------------------
(* Specifications: one per program, the others' variables held still       *)

\* the state before the first call
SnowIdle ==
    /\ cols = {"snow_depth_cm"}
    /\ sdf_copy = [t \in {} |-> NaN]
    /\ year = 0
    /\ corrected_sd = [t \in {} |-> NaN]
    /\ corrected_dh = [t \in {} |-> NaN]
    /\ snow_pc = "idle"
    /\ returned = <<>>

SnowOff ==
    /\ site = "site_1"
    /\ sdf = [t \in {} |-> NaN]
    /\ tdf = [t \in {} |-> NaN]
    /\ SnowIdle

TiltOff ==
    /\ tilt_site = "site_1"
    /\ data = [t \in {} |-> NaN]
    /\ out = [t \in {} |-> NaN]
    /\ tilt_pc = "off"
    /\ tilt_error = ""

MergeOff ==
    /\ fn = "none"
    /\ out_dir = "site_1/"
    /\ df = <<>>
    /\ nfiles = 0
    /\ bound_cols = FALSE
    /\ seen = [t \in {} |-> NaN]
    /\ merge_pc = "off"
    /\ merge_error = ""
    /\ saved = <<>>

MainOff ==
    /\ driver = "none"
    /\ raising = {}
    /\ todo = {}
    /\ processed = {}
    /\ written = {}
    /\ main_pc = "off"

MetOff ==
    /\ caller = "none"
    /\ series = <<>>
    /\ inuvik = <<>>
    /\ trailvalley = <<>>
    /\ out_df = <<>>
    /\ met_pc = "off"

ConvOff ==
    /\ conv_site = "site_1"
    /\ conv_angle = NaN
    /\ conv_flip = FALSE
    /\ dY = NaN
    /\ conv_pc = "off"

GeoOff ==
    /\ geo_file = <<>>
    /\ geo_concat = <<>>
    /\ geo_error = ""
    /\ geo_pc = "off"

SonarOff ==
    /\ sonar_file = <<>>
    /\ sonar_zone = 0
    /\ sonar_dir = "none"
    /\ sonar_concat = <<>>
    /\ sonar_pc = "off"

InitSnow ==
    /\ site \in SnowSites
    /\ \E idx \in { S \in SUBSET SnowDays : Cardinality(S) <= MaxRows } :
         /\ sdf \in [idx -> [snow_depth_cm : SnowVals, snow_sub_heave : {NaN},
                             heave_cm : {NaN}]]
         /\ \E tidx \in SUBSET idx : tdf \in [tidx -> TiltVals]
    /\ SnowIdle
    /\ TiltOff /\ MergeOff /\ MainOff /\ MetOff /\ ConvOff
    /\ GeoOff /\ SonarOff

NextSnow == Begin \/ SeasonStep

SpecSnow == InitSnow /\ [][NextSnow]_vars

InitTilt ==
    /\ tilt_site \in Sites
    /\ \E idx \in { S \in SUBSET TiltDays : Cardinality(S) <= MaxTiltRows } :
         data \in [idx -> [angle_1 : Angles, logger_temp_c : Temps]]
    /\ out = [t \in {} |-> NaN]
    /\ tilt_pc = "idle"
    /\ tilt_error = ""
    /\ SnowOff /\ MergeOff /\ MainOff /\ MetOff /\ ConvOff
    /\ GeoOff /\ SonarOff

NextTilt == Convert \/ Truncate \/ TempFilter \/ Baseline

SpecTilt == InitTilt /\ [][NextTilt]_vars

MergeDirs == {"site_1/", "site_2/", "site_3/", "site_4/"}

InitMerge ==
    /\ fn \in {"concat_sonar", "concat_tilt"}
    /\ out_dir \in MergeDirs
    /\ df = <<>>
    /\ nfiles = 0
    /\ bound_cols = FALSE
    /\ seen = [t \in {} |-> NaN]
    /\ merge_pc = "loop"
    /\ merge_error = ""
    /\ saved = <<>>
    /\ SnowOff /\ TiltOff /\ MainOff /\ MetOff /\ ConvOff
    /\ GeoOff /\ SonarOff

NextMerge == ConcatSonarFile \/ ConcatTiltFile \/ Save

SpecMerge == InitMerge /\ [][NextMerge]_vars

InitMain ==
    /\ driver \in Drivers
    /\ raising \in SUBSET Sites
    /\ todo = Sites
    /\ processed = {}
    /\ written = {}
    /\ main_pc = "loop"
    /\ SnowOff /\ TiltOff /\ MergeOff /\ MetOff /\ ConvOff
    /\ GeoOff /\ SonarOff

NextMain == MergeSite \/ TiltFile \/ TiltSave \/ SnowFile \/ LoopEnd

SpecMain == InitMain /\ [][NextMain]_vars

InitMet ==
    /\ caller \in {"process_tilt", "process_snow"}
    /\ series \in { f \in SeriesFrames : Len(f) <= MaxSeriesRows }
    /\ inuvik \in { f \in MetFrames : Len(f) <= MaxMetRows }
    /\ trailvalley \in IF caller = "process_snow"
                       THEN { f \in MetFrames : Len(f) <= MaxMetRows }
                       ELSE {<<>>}
    /\ out_df = <<>>
    /\ met_pc = "start"
    /\ SnowOff /\ TiltOff /\ MergeOff /\ MainOff /\ ConvOff
    /\ GeoOff /\ SonarOff

NextMet == TiltGetMetData \/ SnowCombineWithEC

SpecMet == InitMet /\ [][NextMet]_vars

InitConv ==
    /\ conv_site \in Sites
    /\ conv_angle \in CallAngles
    /\ conv_flip \in BOOLEAN
    /\ dY = NaN
    /\ conv_pc = "call"
    /\ SnowOff /\ TiltOff /\ MergeOff /\ MainOff /\ MetOff
    /\ GeoOff /\ SonarOff

NextConv == CallConvertAngles

SpecConv == InitConv /\ [][NextConv]_vars

InitGeo ==
    /\ geo_file \in GeoFiles
    /\ geo_concat = <<>>
    /\ geo_error = ""
    /\ geo_pc = "read"
    /\ SnowOff /\ TiltOff /\ MergeOff /\ MainOff /\ MetOff /\ ConvOff
    /\ SonarOff

NextGeo == FrameGeoFile

SpecGeo == InitGeo /\ [][NextGeo]_vars

InitSonar ==
    /\ sonar_file \in SonarFiles
    /\ sonar_zone \in SonarZones
    /\ sonar_dir \in {"site_1/", "site_4/"}
    /\ sonar_concat = <<>>
    /\ sonar_pc = "read"
    /\ SnowOff /\ TiltOff /\ MergeOff /\ MainOff /\ MetOff /\ ConvOff
    /\ GeoOff

NextSonar == FrameSonarFile

SpecSonar == InitSonar /\ [][NextSonar]_vars

----------------------------------------------------------------------------
(* Properties of correct_for_heave                                         *)

\* the window of snow_on_ground[y] as the site has it: half-open, and cut
\* at 2020-04-12 for site_2 in 2019
InWindow(y, t) ==
    /\ snow_on_ground[y].start <= t
    /\ t < snow_on_ground[y].end
    /\ (site = "site_2" /\ y = 1 => t < 20200412)

\* the snow series has a row exactly at the start of window y
HasStartRow(y) == snow_on_ground[y].start \in DOMAIN sdf_copy

\* the input value of column c at t, re-baselined to the start of window y
\* when the start has a row
Rebased(c, y, t) ==
    IF HasStartRow(y)
    THEN Sub(sdf_copy[t][c], sdf_copy[snow_on_ground[y].start][c])
    ELSE sdf_copy[t][c]

\* the windows the running (or finished) call has processed
Processed == IF snow_pc \in {"loop", "done"} THEN 1..year ELSE {}

WindowDates(y) == { t \in DOMAIN sdf_copy : InWindow(y, t) }

\* C1 as stated: once correct_for_heave has returned, every date whose input
\* snow depth (before re-baselining) is negative has all three output fields
\* missing.
C1_NegativeRawRowMissing ==
    snow_pc = "done" =>
        \A t \in DOMAIN sdf :
            Lt(sdf_copy[t].snow_depth_cm, 0) => sdf[t] = NaNRow

\* C1 amended: every date of a processed window whose re-baselined snow
\* depth is negative has all three output fields missing.
C1_NegativeRebasedRowMissing ==
    \A y \in Processed : \A t \in WindowDates(y) :
        Lt(Rebased("snow_depth_cm", y, t), 0) => sdf[t] = NaNRow

\* a returned frame in which a re-baselined depth below zero, from a raw
\* depth that is not negative, is an all-missing row
C1_Witness ==
    /\ snow_pc = "done"
    /\ \E y \in Processed : \E t \in WindowDates(y) :
         /\ HasStartRow(y)
         /\ ~Lt(sdf_copy[t].snow_depth_cm, 0)
         /\ Lt(Rebased("snow_depth_cm", y, t), 0)
         /\ sdf[t] = NaNRow

\* C5: the frame a second call returns equals, field for field, the frame
\* the first call returned.
C5_SecondRunEqualsFirst ==
    Len(returned) >= 2 => returned[2] = returned[1]

\* C6: the try/except never lets an error out; after each iteration the
\* loop's snow depth and heave are the window's values minus the values at
\* the window's start if the start has a row, and the window's raw values
\* if it has none; and the call returns only after the last window.
C6_RebaselineOrRaw ==
    /\ snow_pc # "failed"
    /\ snow_pc = "done" => year = Len(snow_on_ground)
    /\ \A y \in Processed :
         y = year =>
           /\ corrected_sd =
                [t \in WindowDates(y) |-> Rebased("snow_depth_cm", y, t)]
           /\ corrected_dh =
                [t \in WindowDates(y) |-> Rebased("dh1_mm", y, t)]

\* a finished call whose first window had a row but none at its start, and
\* whose last window was zeroed at its start
C6_Witness ==
    /\ snow_pc = "done"
    /\ ~HasStartRow(1) /\ WindowDates(1) # {}
    /\ HasStartRow(4)
    /\ corrected_sd[snow_on_ground[4].start] = Num(0)

\* C7: in every processed window, a date whose re-baselined snow depth is
\* present and not negative has snow_sub_heave = that depth minus a tenth of
\* the re-baselined heave in mm, a missing heave counting as zero.
C7_SnowSubHeave ==
    \A y \in Processed : \A t \in WindowDates(y) :
        LET sd == Rebased("snow_depth_cm", y, t)
            dh == Rebased("dh1_mm", y, t)
        IN  ~IsNa(sd) /\ ~Lt(sd, 0) =>
              sdf[t].snow_sub_heave =
                 Num(Val(sd) - (IF IsNa(dh) THEN 0 ELSE 10 * Val(dh)))

\* a returned frame with a date whose heave is missing and whose
\* snow_sub_heave is the snow depth, and a date whose heave is present
C7_Witness ==
    /\ snow_pc = "done"
    /\ \E y \in Processed : \E t \in WindowDates(y) :
         /\ IsNa(Rebased("dh1_mm", y, t))
         /\ ~IsNa(sdf[t].snow_sub_heave)
         /\ sdf[t].snow_sub_heave = sdf[t].snow_depth_cm
    /\ \E y \in Processed : \E t \in WindowDates(y) :
         /\ ~IsNa(Rebased("dh1_mm", y, t))
         /\ ~IsNa(sdf[t].snow_sub_heave)
         /\ sdf[t].snow_sub_heave # sdf[t].snow_depth_cm

\* C8: once all windows are processed, every date of every window whose
\* re-baselined depth is not negative holds the three values computed for
\* its own window.
C8_EveryWindowKeepsItsValues ==
    snow_pc = "done" =>
        \A y \in Processed : \A t \in WindowDates(y) :
            LET sd == Rebased("snow_depth_cm", y, t)
                dh == Rebased("dh1_mm", y, t)
            IN  ~Lt(sd, 0) =>
                  /\ sdf[t].snow_depth_cm = sd
                  /\ sdf[t].heave_cm = MmToCm(dh)
                  /\ sdf[t].snow_sub_heave =
                        Sub(sd, IF IsNa(dh) THEN Num(0) ELSE MmToCm(dh))

----------------------------------------------------------------------------
(* Properties of process_tilt.processData                                  *)

\* the timestamps of the output whose column c is not missing
Present(c) == { t \in DOMAIN out : ~IsNa(out[t][c]) }

\* C2: in the returned series every dh1_mm is that row's h1_mm minus one
\* baseline, the h1_mm of the earliest timestamp whose h1_mm is not missing;
\* so the earliest dh1_mm that is not missing is zero.
C2_RelativeToFirstValid ==
    tilt_pc = "done" =>
        /\ Present("h1_mm") # {}
        /\ \A t \in DOMAIN out :
             out[t].dh1_mm =
                Sub(out[t].h1_mm, out[Min(Present("h1_mm"))].h1_mm)
        /\ Present("dh1_mm") # {}
        /\ out[Min(Present("dh1_mm"))].dh1_mm = Num(0)

\* a returned series whose first row has no h1_mm, so that the baseline is a
\* later row, and which has a row that moved against the baseline
C2_Witness ==
    /\ tilt_pc = "done"
    /\ Min(Present("h1_mm")) # Min(DOMAIN out)
    /\ \E t \in Present("dh1_mm") : out[t].dh1_mm # Num(0)

\* C3: once the temperature filter has run, a row colder than -35 has no
\* h1_mm, and a row at -35 or warmer has the deflection computed from its
\* angle (zero where none could be computed).
C3_TemperatureFilter ==
    tilt_pc \in {"filtered", "done"} =>
        \A t \in DOMAIN out :
            /\ Lt(out[t].logger_temp_c, -35) => IsNa(out[t].h1_mm)
            /\ ~Lt(out[t].logger_temp_c, -35) =>
                  LET h == convertAngles(data[t].angle_1, tilt_site, FALSE)
                  IN  out[t].h1_mm = IF IsNa(h) THEN Num(0) ELSE h

\* a returned series with a row at -40 without h1_mm and a row at exactly
\* -35 that kept a deflection other than the zero fill
C3_Witness ==
    /\ tilt_pc = "done"
    /\ \E t \in DOMAIN out :
         out[t].logger_temp_c = Num(-40) /\ IsNa(out[t].h1_mm)
    /\ \E t \in DOMAIN out :
         /\ out[t].logger_temp_c = Num(-35)
         /\ ~IsNa(out[t].h1_mm) /\ out[t].h1_mm # Num(0)

----------------------------------------------------------------------------
(* Properties of concat_sonar and concat_tilt                              *)

\* C4: while and after the files are merged, df has one row per timestamp,
\* and for every timestamp the files read so far gave a row for, df's row
\* is the one of the first file, in the order of the list, that gave one.
C4_FirstSeenWins ==
    merge_pc \in {"loop", "done"} =>
        /\ \A i, j \in DOMAIN df : df[i].t = df[j].t => i = j
        /\ \A t \in DOMAIN seen : \E i \in DOMAIN df : df[i] = seen[t]

\* the same of concat_sonar alone, which does not sort
SonarFirstSeenWins == fn = "concat_sonar" => C4_FirstSeenWins

----------------------------------------------------------------------------
(* Properties of the __main__ loops                                        *)

\* C10: when a script has ended, with an error or without, every site whose
\* own processing raises nothing has been processed and has its output file.
C10_FailureIsolated ==
    main_pc \in {"end", "crashed"} =>
        \A s \in Sites :
            ~Raises(driver, s) => s \in processed /\ s \in written

----------------------------------------------------------------------------
(* Properties of the merge with the station records                        *)

Stations == <<inuvik, trailvalley>>

HasRecord(met_df, t) == \E j \in DOMAIN met_df : met_df[j].t = t

\* the returned frame is the left join of the series: the series' dates in
\* its order, its own column as it was, a station's column missing where
\* the station has no record of the date
LeftJoined ==
    /\ Len(out_df) = Len(series)
    /\ \A i \in DOMAIN series :
          /\ out_df[i].t = series[i].t
          /\ out_df[i].own = series[i].own
          /\ out_df[i].sub = series[i].sub
          /\ \A k \in DOMAIN out_df[i].met :
                ~HasRecord(Stations[k], series[i].t)
                    => IsNa(out_df[i].met[k])

\* C11: merging a series with the station records is a left join on the
\* date: the result has the dates of the series, and at every date, also
\* one without a station record, the series' own fields are as before and
\* only the station's fields are missing; for getMetData on the deflection
\* series and for the snow series after combine_snow_with_EC
C11_LeftJoinKeepsOwnFields == met_pc = "done" => LeftJoined

\* the station's 'Snow on Grnd (cm)' for a date, missing without a record
Ground(met_df, t) ==
    IF HasRecord(met_df, t)
    THEN (CHOOSE r \in { met_df[j] : j \in DOMAIN met_df } : r.t = t)
             .snow_on_grnd
    ELSE NaN

\* C11 (amended): the result has the rows of the series in its order, with
\* each station's column holding the station's value for the row's date,
\* missing where the station has no record.  getMetData leaves the series'
\* own column as it was; combine_snow_with_EC leaves snow_depth_cm as it
\* was where Inuvik's 'Snow on Grnd (cm)' is not missing and makes it
\* missing at every other date, a date without an Inuvik record included.
C11_LeftJoinThenNoSnowMask ==
    met_pc = "done" =>
        /\ Len(out_df) = Len(series)
        /\ \A i \in DOMAIN series :
              /\ out_df[i].t = series[i].t
              /\ Len(out_df[i].met) = IF caller = "process_snow" THEN 2 ELSE 1
              /\ \A k \in DOMAIN out_df[i].met :
                    out_df[i].met[k] = Ground(Stations[k], series[i].t)
              /\ out_df[i].sub = series[i].sub
              /\ out_df[i].own =
                    IF caller = "process_snow"
                       /\ IsNa(Ground(inuvik, series[i].t))
                    THEN NaN
                    ELSE series[i].own

\* a snow series with a depth at a date Inuvik has no record of and a depth
\* at a date Inuvik reports snow on the ground, after combine_snow_with_EC
C11_Witness ==
    /\ met_pc = "done"
    /\ caller = "process_snow"
    /\ \E i \in DOMAIN series :
          /\ ~HasRecord(inuvik, series[i].t)
          /\ ~IsNa(series[i].own)
          /\ IsNa(out_df[i].own)
    /\ \E i \in DOMAIN series :
          /\ ~IsNa(Ground(inuvik, series[i].t))
          /\ ~IsNa(series[i].own)
          /\ out_df[i].own = series[i].own

----------------------------------------------------------------------------
(* Properties of convertAngles                                             *)

\* C12: for every site of the registry and both values of flip,
\* convertAngles(0, site, flip) is the site's pivot height (in tenths of a
\* mm): at zero tilt the arm adds nothing, the pivot its full height
C12_ZeroTiltIsPivotHeight ==
    (conv_pc = "returned" /\ conv_angle = Num(0)) =>
        dY = Num(10 * pivot_height[conv_site])

\* a flipped call at zero tilt has returned
C12_Witness ==
    /\ conv_pc = "returned"
    /\ conv_angle = Num(0)
    /\ conv_flip
    /\ conv_site = "site_6"
    /\ dY = Num(3600)

----------------------------------------------------------------------------
(* Properties of the frame of a GeoPrecision file                          *)

\* the readings of the file: its rows but the last, which line 138 drops
Readings == SubSeq(geo_file, 1, Len(geo_file) - 1)

HasToken(r) == r.c3.tok # "" \/ r.c4.tok # ""

\* C13: a reading with '(Err_64)' or '(NoValue)' in an angle field,
\* whichever of the two channels has it, is left out of the frame; no
\* token is turned into a number and building the frame of the other
\* readings does not fail: the frame is made, and its rows are the
\* readings without a token, in the file's order
C13_SentinelRowsDropped ==
    geo_pc # "read" =>
        /\ geo_pc = "framed"
        /\ LET good == SelectSeq(Readings, LAMBDA r : ~HasToken(r))
           IN  /\ Len(geo_concat) = Len(good)
               /\ \A i \in DOMAIN good :
                     /\ geo_concat[i].t = ToDatetimeDayFirst(good[i].date)
                     /\ geo_concat[i].angle_1 = Num(Deg2Rad(good[i].c4.num))
                     /\ geo_concat[i].angle_2 = Num(Deg2Rad(good[i].c3.num))

\* the same for tokens in the first channel only, the column lines 146
\* and 147 test
FirstChannelTokensDropped ==
    (\A i \in DOMAIN Readings : Readings[i].c3.tok = "")
        => C13_SentinelRowsDropped

----------------------------------------------------------------------------
(* Properties of the frame of a sonar file                                 *)

\* the snow value of row i the filter is given: the file's, or the 0 line
\* 79 puts in its place for site 4
Filtered(i) ==
    IF sonar_dir = "site_4/" THEN Num(0) ELSE sonar_file[i].snow

Abs(v) == IF v < 0 THEN -v ELSE v

\* row i of the frame holds the value v at the row's own time
Unchanged(i, v) ==
    /\ sonar_concat[i].snow_depth_in = v
    /\ sonar_concat[i].t =
          ToDatetimeTz(Num(sonar_file[i].time), sonar_zone)

\* C14: a snow value v is in the frame unchanged if and only if
\* |v| <= MAX_SNOW_VAL; a value with |v| > MAX_SNOW_VAL is missing, not
\* clipped to the bound, and a value at the bound is not outside it
C14_KeptIffWithinBound ==
    sonar_pc = "framed" =>
        \A i \in DOMAIN sonar_file :
            LET v == Filtered(i)
            IN  ~IsNa(v) =>
                  /\ Abs(Val(v)) <= MAX_SNOW_VAL <=> Unchanged(i, v)
                  /\ Abs(Val(v)) > MAX_SNOW_VAL
                        => IsNa(sonar_concat[i].snow_depth_in)

\* the same with the bound itself outside: kept if and only if
\* |v| < MAX_SNOW_VAL, missing otherwise
KeptIffStrictlyWithinBound ==
    sonar_pc = "framed" =>
        \A i \in DOMAIN sonar_file :
            LET v == Filtered(i)
            IN  ~IsNa(v) =>
                  /\ Abs(Val(v)) < MAX_SNOW_VAL <=> Unchanged(i, v)
                  /\ Abs(Val(v)) >= MAX_SNOW_VAL
                        => IsNa(sonar_concat[i].snow_depth_in)

----------------------------------------------------------------------------
(* Properties of the season windows                                        *)

InSomeWindow(t) == \E y \in DOMAIN snow_on_ground : InWindow(y, t)

\* C15: in the frame correct_for_heave returns, snow_depth_cm and
\* snow_sub_heave are not missing only at dates t with start <= t < end
\* for one of the windows (for site_2 the 2019 window ends before
\* 2020-04-12); at every other date, a window's end date too, both are
\* missing, also where the input had a snow depth
C15_OnlyInsideWindows ==
    snow_pc = "done" =>
        \A t \in DOMAIN sdf :
            ~InSomeWindow(t) =>
                /\ IsNa(sdf[t].snow_depth_cm)
                /\ IsNa(sdf[t].snow_sub_heave)

\* site_2's returned frame with an input depth at a date outside every
\* window (2020-04-12 or the end date 2020-05-23) and a depth kept inside
C15_Witness ==
    /\ snow_pc = "done"
    /\ site = "site_2"
    /\ \E t \in DOMAIN sdf :
          /\ t \in {20200412, 20200523}
          /\ ~IsNa(sdf_copy[t].snow_depth_cm)
          /\ IsNa(sdf[t].snow_depth_cm)
    /\ \E t \in DOMAIN sdf :
          /\ InSomeWindow(t)
          /\ ~IsNa(sdf[t].snow_depth_cm)
          /\ ~IsNa(sdf[t].snow_sub_heave)

----------------------------------------------------------------------------
(* Properties of readings beyond the pivot's reach                         *)

\* dX of convertAngles, in tenths of a mm
HorizontalShift(angle_rads, s) ==
    ((10000 - Cos(Val(angle_rads))) * arm_length[s]) \div 1000

\* the arm end has moved further sideways than the pivot is high
BeyondPivot(angle_rads, s) ==
    /\ ~IsNa(angle_rads)
    /\ HorizontalShift(angle_rads, s) > 10 * pivot_height[s]

\* the deflection with dX clamped to the pivot height: the pivot adds 0
Clamped(angle_rads, s) ==
    Num((Sin(Val(angle_rads)) * arm_length[s]) \div 1000)

\* the readings of the returned frame that are beyond the pivot's reach and
\* not masked for their temperature
BeyondReach ==
    { t \in DOMAIN out :
        BeyondPivot(data[t].angle_1, tilt_site) /\ ~TooCold(out[t]) }

\* C16: a reading whose horizontal displacement exceeds the pivot height is
\* not silently turned into data: processData signals an error, or the
\* frame it returns holds the clamped deflection for the reading, never a
\* NaN or a value put in its place such as the zero fill
C16_BeyondPivotClampedOrError ==
    tilt_pc = "done" =>
        \A t \in BeyondReach :
            out[t].h1_mm = Clamped(data[t].angle_1, tilt_site)

\* what processData returns for such a reading: the zero of line 145
BeyondPivotZeroFilled ==
    tilt_pc = "done" => \A t \in BeyondReach : out[t].h1_mm = Num(0)

====
